---- MODULE Spec2Model ----
(***************************************************************************)
(* Asynchronous face-verification pipeline of the attendance tracker:      *)
(*   - the Ingestion Handler   (attendance/process_attendance.py),         *)
(*   - the Comparison Worker   (attendance/compare_student_face.py),       *)
(*   - their data-access helpers (attendance/shared/utils/*.py).           *)
(* Every handler invocation is an independent process; the DynamoDB table, *)
(* the S3 bucket, the SQS queue and the SNS topic are the shared state.    *)
(* An optional value (Python None) is the empty tuple, a present value v   *)
(* is the one-element tuple <<v>>.                                         *)
(***************************************************************************)
EXTENDS Integers, Sequences, FiniteSets, TLC

\* ---------------------------------------------------------------- bounds
\* datetime.now() returns 1, 2, ... MaxClock: every reading is later than the
\* one before, and a step that needs a reading past MaxClock is not taken
MaxClock == 3
\* uuid4() tracking ids are 1..MaxSubmissions, each generated at most once
MaxSubmissions == 1
\* an SQS event carries 1..MaxBatch records
MaxBatch == 2

Users == {"u1"}
\* concurrently running invocations of the worker lambda
Workers == {"w1", "w2"}

None == <<>>
Some(v) == <<v>>
Opt(S) == {None} \cup {Some(s) : s \in S}
Val(o) == o[1]

\* A timestamp earlier than every reading of the clock: the attendance_date
\* of a job that matches no stored record
StaleDate == 0
Times == StaleDate..MaxClock
TrackingIds == 1..MaxSubmissions

\* ------------------------------------------------------------ constants
\* process_attendance.py:97  len(face_image) > 13 * 1024 * 1024
MAX_FACE_IMAGE_LEN == 13 * 1024 * 1024
\* constants.py:14  FACE_SIMILARITY_THRESHOLD = 80.0
FACE_SIMILARITY_THRESHOLD == 80

PROCESSING == "processing"
VERIFIED == "verified"
FAILED == "failed"
AttendanceStatus == {PROCESSING, VERIFIED, FAILED}
TerminalStatus == {VERIFIED, FAILED}

\* ------------------------------------------------- student profile store
\* What get_student_by_user_id can return: the students table belongs to
\* other handlers, so each read yields any profile those handlers can store.
NoStudent == [found |-> FALSE, face_registered |-> FALSE, face_s3_key |-> None]
StudentReads ==
    { NoStudent,
      [found |-> TRUE, face_registered |-> FALSE, face_s3_key |-> None],
      [found |-> TRUE, face_registered |-> TRUE,  face_s3_key |-> None],
      [found |-> TRUE, face_registered |-> TRUE,  face_s3_key |-> Some("ref")] }

\* --------------------------------------------------------- image store
\* f"faces/attendance/{user_id}/{tracking_id}.jpg"
AttendanceFaceKey(user_id, tracking_id) == <<user_id, tracking_id>>

\* ----------------------------------------------- attendance record store
\* One DynamoDB item.  tracking_id and face_s3_key are None in an item that
\* update_item created (it sets only the attributes of its SET expression).
Item(user_id, attendance_date, status, similarity_score, error_message, verified_at, tracking_id, face_s3_key) ==
    [user_id |-> user_id, attendance_date |-> attendance_date,
     status |-> status, similarity_score |-> similarity_score,
     error_message |-> error_message, verified_at |-> verified_at,
     tracking_id |-> tracking_id, face_s3_key |-> face_s3_key]

KeyOf(item) == <<item.user_id, item.attendance_date>>
ItemsAt(tbl, key) == {i \in tbl : KeyOf(i) = key}

\* AttendanceModel.validate_similarity_score
ValidateSimilarityScore(v) == v = None \/ (Val(v) >= 0 /\ Val(v) <= 100)

\* AttendanceModel.from_dynamodb_item: cls(**data) raises when a required
\* field (face_s3_key, tracking_id) is missing or the score validator rejects
FromDynamoDbItemOk(item) ==
    /\ item.face_s3_key # None
    /\ item.tracking_id # None
    /\ ValidateSimilarityScore(item.similarity_score)

\* table.put_item: replaces the whole item under the same primary key
PutItem(tbl, item) == (tbl \ ItemsAt(tbl, KeyOf(item))) \cup {item}

\* AttendanceModel(...).to_dynamodb_item() of create_processing_attendance_record
ProcessingItem(user_id, now, tracking_id, face_s3_key) ==
    Item(user_id, now, PROCESSING, None, None, None,
         Some(tracking_id), Some(face_s3_key))

\* An update that writes a score of 0 when the result carries none
UpdateItemZeroScore(tbl, user_id, attendance_date, status, similarity_score, error_message, now) ==
    LET old == ItemsAt(tbl, <<user_id, attendance_date>>)
        base == IF old = {}
                THEN Item(user_id, attendance_date, status, None, None, None,
                          None, None)
                ELSE CHOOSE i \in old : TRUE
        new == [base EXCEPT
                  !.status = status,
                  !.verified_at = Some(now),
                  !.similarity_score =
                      IF similarity_score # None THEN similarity_score ELSE Some(0),
                  !.error_message =
                      IF error_message # None THEN error_message ELSE @]
    IN (tbl \ old) \cup {new}

\* An update that writes a new item beside the one stored under the key
UpdateItemAppends(tbl, user_id, attendance_date, status, similarity_score, error_message, now) ==
    tbl \cup {Item(user_id, attendance_date, status, similarity_score, error_message, Some(now), None, None)}

\* table.update_item with the SET expression built by update_attendance_status:
\* status and verified_at always, similarity_score and error_message only when
\* not None; no ConditionExpression, so a missing key is created (upsert).
UpdateItem(tbl, user_id, attendance_date, status, similarity_score, error_message, now) ==
    LET old == ItemsAt(tbl, <<user_id, attendance_date>>)
        base == IF old = {}
                THEN Item(user_id, attendance_date, status, None, None, None,
                          None, None)
                ELSE CHOOSE i \in old : TRUE
        new == [base EXCEPT
                  !.status = status,
                  !.verified_at = Some(now),
                  !.similarity_score =
                      IF similarity_score # None THEN similarity_score ELSE @,
                  !.error_message =
                      IF error_message # None THEN error_message ELSE @]
    IN (tbl \ old) \cup {new}

UpdatedItem(tbl, user_id, attendance_date) ==
    CHOOSE i \in ItemsAt(tbl, <<user_id, attendance_date>>) : TRUE

\* uuid4() values: generate_tracking_id() hands out the positive numbers
\* 1, 2, ...; the attendance_id that AttendanceModel's default_factory draws
\* for the record with tracking id n is the number -n, so that no
\* attendance_id ever equals a tracking id.  An item that update_item created
\* has neither.
AttendanceId(item) ==
    IF item.tracking_id = None THEN None ELSE Some(0 - Val(item.tracking_id))

\* table.query(IndexName='attendance-id-index',
\*             KeyConditionExpression='attendance_id = :tracking_id', Limit=1).
\* The table's indexes are declared outside this code: with index = "missing"
\* the query raises, with "present" it yields the items whose attendance_id
\* is the value
QueryAttendanceIdIndex(tbl, value, index) ==
    IF index = "missing"
    THEN [raised |-> TRUE, items |-> {}]
    ELSE [raised |-> FALSE, items |-> {i \in tbl : AttendanceId(i) = Some(value)}]

\* get_attendance_by_tracking_id: [raised, result]
GetAttendanceByTrackingId(tbl, tracking_id, index) ==
    LET q == QueryAttendanceIdIndex(tbl, tracking_id, index) IN
    IF q.raised THEN [raised |-> TRUE, result |-> None]
    ELSE IF q.items = {} THEN [raised |-> FALSE, result |-> None]
    ELSE LET item == CHOOSE i \in q.items : TRUE IN
         IF FromDynamoDbItemOk(item)
         THEN [raised |-> FALSE, result |-> Some(item)]
         ELSE [raised |-> TRUE, result |-> None]

\* The values a caller looks up: the tracking ids handed out, one never
\* handed out, and the attendance ids of the records
LookupArgs ==
    TrackingIds \cup {MaxSubmissions + 1} \cup {0 - t : t \in TrackingIds}

\* ------------------------------------------------------- comparison job
\* The JSON body of one SQS record.  json_ok = FALSE: json.loads raises.
JobBody(tracking_id, user_id, face_s3_key, attendance_date) ==
    [json_ok |-> TRUE, tracking_id |-> tracking_id, user_id |-> user_id,
     face_s3_key |-> face_s3_key, attendance_date |-> attendance_date]

NotJson == [json_ok |-> FALSE, tracking_id |-> None, user_id |-> None,
            face_s3_key |-> None, attendance_date |-> None]

\* The records an SQS event can carry when the attendance records were
\* created at the times `dates`: a body that is no JSON, every combination of
\* missing fields, and the complete jobs for a stale date or one of `dates`.
\* (The worker reads attendance_date only once the other three are present.)
JobMessages(dates) ==
    {NotJson} \cup
    { JobBody(t, u, k, Some(StaleDate)) :
        t \in Opt({1}), u \in Opt(Users), k \in Opt({AttendanceFaceKey("u1", 1)}) } \cup
    { JobBody(Some(1), Some(u), Some(AttendanceFaceKey(u, 1)), d) :
        u \in Users, d \in {None} \cup {Some(t) : t \in dates} }

\* send_to_comparison_queue: its positional parameters without a default
SendParams == <<"queue_url", "user_id", "tracking_id", "face_s3_key", "attendance_date">>
\* the arguments process_attendance.handler passes to it
HandlerSendArgs == <<"queue_url", "user_id", "tracking_id", "face_s3_key">>
\* Python binds a call only if every parameter without a default gets an
\* argument; otherwise the call raises TypeError before the body runs
CallBinds(args, params) == Len(args) >= Len(params)

\* sqs_client.send_message(MessageBody=json.dumps(message_body))
SendToComparisonQueue(q, user_id, tracking_id, face_s3_key, attendance_date) ==
    q \cup {JobBody(Some(tracking_id), Some(user_id), Some(face_s3_key), Some(attendance_date))}

\* ---------------------------------------------------- ingestion request
\* One API Gateway event as process_attendance.handler reads it.
\*   body:  "missing" | "bad_envelope" (isBase64Encoded, undecodable)
\*          | "not_json" | "not_object" (JSON, but no dict) | "object"
\*   user:  the authorizer claim sub, or None
\*   image_len: len(body['faceImage']), 0 when absent or empty
\*   b64ok: whether base64.b64decode accepts faceImage
Req(method, body, user, image_len, b64ok) ==
    [method |-> method, body |-> body, user |-> user,
     image_len |-> image_len, b64ok |-> b64ok]

NoReq == Req("", "missing", None, 0, FALSE)

ImageLens == {0, MAX_FACE_IMAGE_LEN, MAX_FACE_IMAGE_LEN + 1}

\* The events drawn: a field the handler never reaches is left at one value
Requests ==
    { Req(m, "object", u, MAX_FACE_IMAGE_LEN, TRUE) :
        m \in {"OPTIONS", "GET"}, u \in Opt(Users) } \cup
    { Req("POST", b, u, MAX_FACE_IMAGE_LEN, TRUE) :
        b \in {"missing", "bad_envelope", "not_json", "not_object"}, u \in Opt(Users) } \cup
    { Req("POST", "object", u, l, ok) :
        u \in Opt(Users), l \in ImageLens, ok \in BOOLEAN }

\* create_response(status_code, {...}); tracking_id and status are the body's
Resp(statusCode, error, tracking_id, status) ==
    [statusCode |-> statusCode, error |-> error,
     tracking_id |-> tracking_id, status |-> status]

NoResp == Resp(0, "", None, "")

\* What a block of the handler ends with: it returns resp, raises, or
\* (neither) falls through to the next statement
Returns(resp) == [kind |-> "return", resp |-> resp]
Raises == [kind |-> "raise", resp |-> NoResp]
Continues == [kind |-> "continue", resp |-> NoResp]

\* validate_request(event)
ValidateRequest(req) ==
    IF req.method = "OPTIONS" THEN Returns(Resp(200, "CORS preflight successful", None, ""))
    ELSE IF req.method # "POST" THEN Returns(Resp(405, "Method Not Allowed", None, ""))
    ELSE IF req.body = "missing" THEN Returns(Resp(400, "Bad Request", None, ""))
    ELSE Continues

\* A size check against the 15 MB the comparison service accepts
ImageTooLargeFor15MB(image_len) == image_len > 15 * 1024 * 1024

\* The image size check: len(face_image) > 13 * 1024 * 1024
ImageTooLarge(image_len) == image_len > MAX_FACE_IMAGE_LEN

\* handler, from validate_request to the size check: no store is touched
ParseAndCheck(req) ==
    LET v == ValidateRequest(req) IN
    IF v.kind # "continue" THEN v
    ELSE IF req.body = "bad_envelope" THEN Raises
    ELSE IF req.body = "not_json" THEN Returns(Resp(400, "Bad Request", None, ""))
    ELSE IF req.user = None THEN Returns(Resp(401, "Unauthorized", None, ""))
    ELSE IF req.body = "not_object" THEN Raises
    ELSE IF req.image_len = 0 THEN Returns(Resp(400, "Bad Request", None, ""))
    ELSE IF ImageTooLarge(req.image_len) THEN Returns(Resp(413, "Payload Too Large", None, ""))
    ELSE Continues

\* get_student_by_user_id: the read raises, or yields a profile or None
StudentReadOutcomes ==
    {[raised |-> TRUE, student |-> NoStudent]} \cup
    {[raised |-> FALSE, student |-> s] : s \in StudentReads}

\* A check of the profile that forgets the face_registered flag
CheckStudentFoundOnly(read) ==
    IF read.raised THEN Raises
    ELSE IF ~read.student.found THEN Returns(Resp(404, "Not Found", None, ""))
    ELSE Continues

\* handler, the face-registration check on the profile read
CheckStudent(read) ==
    IF read.raised THEN Raises
    ELSE IF ~read.student.found THEN Returns(Resp(404, "Not Found", None, ""))
    ELSE IF ~read.student.face_registered THEN Returns(Resp(400, "Face Not Registered", None, ""))
    ELSE Continues

\* A handler without the outermost except
OuterExceptMissing(out) == out

\* handler's outermost try/except Exception: whatever escapes the body
\* becomes a 500 response
OuterExcept(out) ==
    IF out.kind = "raise"
    THEN Returns(Resp(500, "Internal Server Error", None, ""))
    ELSE out

\* ------------------------------------------- comparison service adapter
\* FaceComparisonResult
FaceComparisonResult(success, similarity_score, error_message, error_code) ==
    [success |-> success, similarity_score |-> similarity_score,
     error_message |-> error_message, error_code |-> error_code]

NoResult == FaceComparisonResult(FALSE, None, None, None)

\* What rekognition_client.compare_faces does: it raises exc, or (exc = "none")
\* answers with FaceMatches (their Similarity values, best first) and the
\* number of UnmatchedFaces
RekAnswer(exc, matches, unmatched) ==
    [exc |-> exc, matches |-> matches, unmatched |-> unmatched]

\* compare_faces was not called
NoRek == RekAnswer("not_called", <<>>, 0)

\* What the adapter hands back: it raised, or it returned result
AdapterReturns(result) == [raised |-> FALSE, result |-> result]
AdapterRaises == [raised |-> TRUE, result |-> NoResult]

\* The service errors the adapter knows by name
THROTTLED == "ProvisionedThroughputExceededException"
ClassifiedErrors ==
    {"InvalidParameterException", "ImageTooLargeException",
     "InvalidS3ObjectException", "InvalidImageFormatException"}

\* An adapter that reports throttling as one more failed comparison
ClassifyErrorThrottleReturned(exc) ==
    IF exc = "InvalidParameterException"
    THEN AdapterReturns(FaceComparisonResult(FALSE, None, Some("Invalid image format or parameters"), Some("INVALID_PARAMETER")))
    ELSE IF exc = "ImageTooLargeException"
    THEN AdapterReturns(FaceComparisonResult(FALSE, None, Some("Image size too large"), Some("IMAGE_TOO_LARGE")))
    ELSE IF exc = "InvalidS3ObjectException"
    THEN AdapterReturns(FaceComparisonResult(FALSE, None, Some("Image not found or inaccessible"), Some("IMAGE_NOT_FOUND")))
    ELSE IF exc = "InvalidImageFormatException"
    THEN AdapterReturns(FaceComparisonResult(FALSE, None, Some("Invalid image format"), Some("INVALID_IMAGE_FORMAT")))
    ELSE IF exc = THROTTLED
    THEN AdapterReturns(FaceComparisonResult(FALSE, None, Some("Face recognition service temporarily unavailable"), Some("SERVICE_UNAVAILABLE")))
    ELSE AdapterRaises

\* An adapter whose last except clause returns a failure instead of raising
ClassifyErrorUnknownReturned(exc) ==
    IF exc = "InvalidParameterException"
    THEN AdapterReturns(FaceComparisonResult(FALSE, None, Some("Invalid image format or parameters"), Some("INVALID_PARAMETER")))
    ELSE IF exc = "ImageTooLargeException"
    THEN AdapterReturns(FaceComparisonResult(FALSE, None, Some("Image size too large"), Some("IMAGE_TOO_LARGE")))
    ELSE IF exc = "InvalidS3ObjectException"
    THEN AdapterReturns(FaceComparisonResult(FALSE, None, Some("Image not found or inaccessible"), Some("IMAGE_NOT_FOUND")))
    ELSE IF exc = "InvalidImageFormatException"
    THEN AdapterReturns(FaceComparisonResult(FALSE, None, Some("Invalid image format"), Some("INVALID_IMAGE_FORMAT")))
    ELSE IF exc = THROTTLED
    THEN AdapterRaises
    ELSE AdapterReturns(FaceComparisonResult(FALSE, None, Some("Face comparison failed"), Some("UNKNOWN_ERROR")))

\* compare_faces_with_rekognition, the except clauses (lines 132-176): the
\* four errors known by name become failure results, throttling and every
\* other exception are raised again
ClassifyError(exc) ==
    IF exc = "InvalidParameterException"
    THEN AdapterReturns(FaceComparisonResult(FALSE, None, Some("Invalid image format or parameters"), Some("INVALID_PARAMETER")))
    ELSE IF exc = "ImageTooLargeException"
    THEN AdapterReturns(FaceComparisonResult(FALSE, None, Some("Image size too large"), Some("IMAGE_TOO_LARGE")))
    ELSE IF exc = "InvalidS3ObjectException"
    THEN AdapterReturns(FaceComparisonResult(FALSE, None, Some("Image not found or inaccessible"), Some("IMAGE_NOT_FOUND")))
    ELSE IF exc = "InvalidImageFormatException"
    THEN AdapterReturns(FaceComparisonResult(FALSE, None, Some("Invalid image format"), Some("INVALID_IMAGE_FORMAT")))
    ELSE AdapterRaises

\* An adapter that takes the last match of the list for the best one
ClassifyResponseLastMatch(rek) ==
    IF rek.matches = <<>>
    THEN IF rek.unmatched > 0
         THEN AdapterReturns(FaceComparisonResult(FALSE, None, Some("Similarity below threshold"), Some("SIMILARITY_BELOW_THRESHOLD")))
         ELSE AdapterReturns(FaceComparisonResult(FALSE, None, Some("No face detected in image"), Some("NO_FACE_DETECTED")))
    ELSE IF Len(rek.matches) > 1
    THEN AdapterReturns(FaceComparisonResult(FALSE, Some(rek.matches[Len(rek.matches)]), Some("Multiple faces detected in image"), Some("MULTIPLE_FACES_DETECTED")))
    ELSE AdapterReturns(FaceComparisonResult(TRUE, Some(rek.matches[1]), None, None))

\* compare_faces_with_rekognition, lines 76-130: the response's FaceMatches
\* and UnmatchedFaces decide the result; face_matches[0] is the best match
ClassifyResponse(rek) ==
    IF rek.matches = <<>>
    THEN IF rek.unmatched > 0
         THEN AdapterReturns(FaceComparisonResult(FALSE, None, Some("Similarity below threshold"), Some("SIMILARITY_BELOW_THRESHOLD")))
         ELSE AdapterReturns(FaceComparisonResult(FALSE, None, Some("No face detected in image"), Some("NO_FACE_DETECTED")))
    ELSE IF Len(rek.matches) > 1
    THEN AdapterReturns(FaceComparisonResult(FALSE, Some(rek.matches[1]), Some("Multiple faces detected in image"), Some("MULTIPLE_FACES_DETECTED")))
    ELSE AdapterReturns(FaceComparisonResult(TRUE, Some(rek.matches[1]), None, None))

\* compare_faces_with_rekognition: [raised, result]
CompareFacesWithRekognition(rek) ==
    IF rek.exc # "none" THEN ClassifyError(rek.exc) ELSE ClassifyResponse(rek)

\* The answers the service gives in the pipeline's runs
RekAnswers ==
    { RekAnswer("none", <<>>, 1),
      RekAnswer("none", <<95>>, 0),
      RekAnswer("none", <<95, 85>>, 0),
      RekAnswer(THROTTLED, <<>>, 0) }

\* The Similarity values the service reports: two above the threshold, one
\* outside the range 0..100
ServiceScores == {FACE_SIMILARITY_THRESHOLD + 5, FACE_SIMILARITY_THRESHOLD + 15, 150}
\* FaceMatches holds at most MaxMatches entries
MaxMatches == 2

\* The FaceMatches lists of a response: the service lists the matches by
\* similarity, highest first
ScoreLists ==
    { m \in UNION {[1..n -> ServiceScores] : n \in 0..MaxMatches} :
        \A i \in 1..Len(m) : \A j \in 1..Len(m) : i < j => m[i] >= m[j] }

\* Every answer of the service: each error the adapter names, throttling, an
\* error it does not name, and the responses with their match lists
ServiceAnswers ==
    { RekAnswer(e, <<>>, 0) : e \in ClassifiedErrors \cup {THROTTLED, "InternalServerError"} } \cup
    { RekAnswer("none", m, u) : m \in ScoreLists, u \in 0..1 }

\* ---------------------------------------------------- comparison worker
\* The dict process_single_message returns.  retryable is None when the
\* dict has no 'retryable' key.
ResultDict(success, error, retryable, skipped, status, similarity_score) ==
    [success |-> success, error |-> error, retryable |-> retryable,
     skipped |-> skipped, status |-> status, similarity_score |-> similarity_score]

NoDict == ResultDict(FALSE, "", None, FALSE, None, None)

\* What process_single_message ends with: it returns a dict or raises
Returned(d) == [raised |-> FALSE, result |-> d]
Raised == [raised |-> TRUE, result |-> NoDict]
NoOut == [raised |-> FALSE, result |-> NoDict]

\* Python truthiness of a message field: None is falsy
Truthy(v) == v # None

\* A validation that forgets face_s3_key
MessageFieldsPresentNoKey(body) ==
    Truthy(body.tracking_id) /\ Truthy(body.user_id)

\* all([tracking_id, user_id, attendance_face_s3_key])
MessageFieldsPresent(body) ==
    Truthy(body.tracking_id) /\ Truthy(body.user_id) /\ Truthy(body.face_s3_key)

\* A test of the profile that looks at the face_registered flag only
FaceRegisteredFlagOnly(student) == student.face_registered

\* process_single_message, line 118: the profile has a registered face
HasRegisteredFace(student) ==
    student.face_registered /\ Truthy(student.face_s3_key)

\* An idempotency test that knows only VERIFIED
AlreadyVerified(attendance) ==
    attendance # None /\ Val(attendance).status = VERIFIED

\* process_single_message, the idempotency test on the looked-up record
AlreadyProcessed(attendance) ==
    attendance # None /\ Val(attendance).status \in {VERIFIED, FAILED}

\* A worker that takes a lookup that raised for a record already processed
LookupAttendanceFaultSkips(tbl, user_id, attendance_date, fault) ==
    LET found == ItemsAt(tbl, <<user_id, attendance_date>>) IN
    IF fault THEN Some(Item(user_id, attendance_date, VERIFIED, None, None, None, None, None))
    ELSE IF found = {} THEN None
    ELSE LET item == CHOOSE i \in found : TRUE IN
         IF FromDynamoDbItemOk(item) THEN Some(item) ELSE None

\* get_attendance_by_user_and_date as the worker's inner try/except sees it:
\* the record, or None when there is none or the lookup raised (the read
\* failed, or from_dynamodb_item rejected the item)
LookupAttendance(tbl, user_id, attendance_date, fault) ==
    LET found == ItemsAt(tbl, <<user_id, attendance_date>>) IN
    IF fault \/ found = {} THEN None
    ELSE LET item == CHOOSE i \in found : TRUE IN
         IF FromDynamoDbItemOk(item) THEN Some(item) ELSE None

\* A loop body that reports no message at all
BatchItemFailuresNoneReported(failures, messageId, out) == failures

\* A loop body that reports every failed message, retryable or not
BatchItemFailuresAllFailed(failures, messageId, out) ==
    IF out.raised \/ ~out.result.success THEN failures \cup {messageId} ELSE failures

\* handler's loop body: which messageIds go to batch_item_failures
BatchItemFailures(failures, messageId, out) ==
    IF out.raised THEN failures \cup {messageId}
    ELSE IF ~out.result.success
         THEN IF out.result.retryable = None \/ out.result.retryable = Some(TRUE)
              THEN failures \cup {messageId}
              ELSE failures
         ELSE failures

\* ------------------------------------------------ worker's event source
\* The comparison queue as the Lambda event source mapping drives it: the
\* job bodies it holds, the batch it handed to the running invocation (the
\* record with messageId n is batch[n]), and the bodies it has deleted
NoSqs == [held |-> {}, batch |-> <<>>, deleted |-> {}]

\* ------------------------------------------------------ students table
\* One item of the Students table, as far as the handlers here read or write it
Profile(student_id, phone_number, face_registered, face_s3_key) ==
    [student_id |-> student_id, phone_number |-> phone_number,
     face_registered |-> face_registered, face_s3_key |-> face_s3_key]

\* create_student_profile.handler: the item put at sign-up
NewProfile == Profile(None, None, FALSE, None)

\* str.strip() on the strings a request carries here
Strip(s) == IF s = " " THEN "" ELSE IF s = " S2 " THEN "S2" ELSE s

\* The student_id and phone_number values a request body can carry
StudentIdInputs == {" ", "S1", " S2 "}
ValidPhones == {"+14125550100"}
PhoneInputs == {""} \cup ValidPhones \cup {"12"}

\* validate_phone_number: 10 to 15 digits after an optional +
ValidatePhoneNumber(phone_number) == phone_number \in ValidPhones

\* What a handler of the API answers with: the statusCode and the message
\* (or error) of the body
Answer(statusCode, message) == [statusCode |-> statusCode, message |-> message]

\* update_student_profile.handler, lines 57-112: the claims, the body, the
\* fields given and the phone number's format
ValidateUpdate(req) ==
    IF req.user = None
    THEN Returns(Answer(400, "Invalid request: missing authorization claims"))
    ELSE IF ~req.json_ok
    THEN Returns(Answer(400, "Invalid request body: must be valid JSON"))
    ELSE IF req.student_id = None /\ req.phone_number = None
    THEN Returns(Answer(400, "At least one field (student_id or phone_number) must be provided"))
    ELSE IF /\ req.phone_number # None
            /\ Strip(Val(req.phone_number)) # ""
            /\ ~ValidatePhoneNumber(Val(req.phone_number))
    THEN Returns(Answer(400, "Invalid phone number format"))
    ELSE Continues

\* existing_student_id and existing_student_id.strip()
StudentIdSet(item) ==
    /\ item.student_id # None
    /\ Val(item.student_id) # ""
    /\ Strip(Val(item.student_id)) # ""

\* update_student_profile.handler, lines 117-150, on the item get_item read
\* (None: no item)
CheckStudentId(req, item) ==
    IF item = None
    THEN Returns(Answer(404, "Student profile not found"))
    ELSE IF req.student_id # None /\ StudentIdSet(Val(item))
    THEN Returns(Answer(403, "Student ID can only be set once and cannot be changed"))
    ELSE Continues

\* update_student_profile.handler, lines 152-187: update_item with the SET
\* expression built from the fields given; no ConditionExpression
UpdateStudentItem(item, student_id, phone_number) ==
    [item EXCEPT
       !.student_id = IF student_id # None THEN Some(Strip(Val(student_id))) ELSE @,
       !.phone_number =
           IF phone_number = None THEN @
           ELSE IF Strip(Val(phone_number)) # "" THEN Some(Strip(Val(phone_number)))
           ELSE None]

\* ----------------------------------------------- class schedules table
ScheduleIds == {"PITT_CS1"}

\* One item of the schedules table: the owner and one field of the body
Schedule(instructor_id, course_name) ==
    [instructor_id |-> instructor_id, course_name |-> course_name]

\* auth_utils.require_role: TRUE when the caller has one of the roles (the
\* code raises AuthorizationError otherwise)
RequireRole(groups, required_roles) == groups \cap required_roles # {}

\* upsert_schedule.handler, line 139
IsInstructorOnly(groups) == "Instructor" \in groups /\ "Admin" \notin groups

\* upsert_schedule.handler, lines 37-132: the caller's role, the path
\* parameters and the body
ValidateUpsert(req) ==
    IF ~RequireRole(req.groups, {"Admin", "Instructor"})
    THEN Returns(Answer(403, "Forbidden: Insufficient permissions"))
    ELSE IF req.shape = "no_path"
    THEN Returns(Answer(400, "Invalid request: missing required parameters"))
    ELSE IF req.shape = "bad_prefix"
    THEN Returns(Answer(400, "Schedule ID must start with PITT_"))
    ELSE IF req.shape = "not_json"
    THEN Returns(Answer(400, "Invalid request body: must be valid JSON"))
    ELSE IF req.shape = "missing_fields"
    THEN Returns(Answer(400, "Missing required fields"))
    ELSE IF req.shape = "mismatch"
    THEN Returns(Answer(400, "Schedule ID in path must match schedule_id in body"))
    ELSE Continues

\* upsert_schedule.handler, lines 141-148, on the item get_item read (None:
\* no item): an instructor may only update a schedule of their own
CheckOwnership(req, item) ==
    IF /\ IsInstructorOnly(req.groups)
       /\ item # None
       /\ Val(item).instructor_id # None
       /\ Val(item).instructor_id # Some(req.user)
    THEN Returns(Answer(403, "Forbidden: Insufficient permissions"))
    ELSE Continues

\* upsert_schedule.handler, lines 153-171: the item to write
ScheduleData(req) ==
    Schedule(IF IsInstructorOnly(req.groups) THEN Some(req.user) ELSE req.instructor_id,
             req.course_name)

\* ------------------------------------------------------------- state
VARIABLES
    clock,          \* what datetime.now() returns
    nextId,         \* the next tracking id generate_tracking_id() hands out
    images,         \* Face Image Store: the keys of the uploaded objects
    table,          \* Attendance Record Store: the set of its items
    created,        \* history: the keys create_processing_attendance_record wrote
    queue,          \* the comparison queue: the bodies send_message accepted
    notifications,  \* the statuses publish_attendance_notification published
    ing,            \* the running invocation of the Ingestion Handler
    wk,             \* the running invocations of the Comparison Worker
    obs,            \* history: what the last step completed (an ingestion
                    \* response, one message's result, a batch's return value)
    sqs,            \* the comparison queue as the worker's event source sees it:
                    \* the jobs it holds, the batch handed out, the jobs deleted
    students,       \* Students table: the profile item of each user, or None
    schedules,      \* Class schedules table: the item of each schedule_id, or None
    upd,            \* the running invocations of update_student_profile
    ups,            \* the running invocations of upsert_schedule
    reg,            \* the running invocation of register_student_face
    ans             \* history: what the last API request outside the pipeline
                    \* (or the last lookup by tracking id) was answered

\* the state of the verification pipeline, and the state of the other handlers
pipeline == <<clock, nextId, images, table, created, queue, notifications, ing, wk, obs>>
others == <<sqs, students, schedules, upd, ups, reg, ans>>
vars == <<clock, nextId, images, table, created, queue, notifications, ing, wk, obs,
          sqs, students, schedules, upd, ups, reg, ans>>
stores == <<images, table, created, queue, notifications>>

IdleIng ==
    [pc |-> "idle", req |-> NoReq, student |-> NoStudent, tracking_id |-> None,
     face_s3_key |-> None, attendance_date |-> None, calls |-> <<>>]

IdleWorker ==
    [pc |-> "idle", idx |-> 0, failures |-> {}, msg |-> NotJson,
     result |-> NoResult, calls |-> <<>>]

NoObs ==
    [op |-> "none", who |-> "", ended |-> FALSE, req |-> NoReq, student |-> NoStudent,
     resp |-> NoResp, escaped |-> FALSE, tracking_id |-> None, fault |-> "none",
     calls |-> <<>>, msg |-> NotJson, messageId |-> 0, out |-> NoOut,
     lookup |-> "not_called", rek |-> NoRek, result |-> NoResult, failures |-> {}]

\* concurrently running invocations of update_student_profile
Updaters == {"p1", "p2"}
\* the event update_student_profile.handler reads: the authorizer claim sub,
\* whether the body is JSON, and the body's student_id and phone_number
UpdReq(user, json_ok, student_id, phone_number) ==
    [user |-> user, json_ok |-> json_ok, student_id |-> student_id,
     phone_number |-> phone_number]
NoUpdReq == UpdReq(None, FALSE, None, None)
IdleUpd == [pc |-> "idle", req |-> NoUpdReq]
\* The requests drawn for update_student_profile
UpdRequests ==
    { UpdReq(None, TRUE, Some("S1"), None) } \cup
    { UpdReq(Some(u), FALSE, None, None) : u \in Users } \cup
    { UpdReq(Some(u), TRUE, sid, pn) :
        u \in Users, sid \in Opt(StudentIdInputs), pn \in Opt(PhoneInputs) }

\* concurrently running invocations of upsert_schedule
Upserters == {"p1", "p2"}
\* the event upsert_schedule.handler reads: the caller's sub and groups, the
\* schedule_id of the path, what is wrong with path or body ("ok": nothing),
\* and the body's instructor_id and course_name
UpsReq(user, groups, schedule_id, shape, instructor_id, course_name) ==
    [user |-> user, groups |-> groups, schedule_id |-> schedule_id, shape |-> shape,
     instructor_id |-> instructor_id, course_name |-> course_name]
NoUpsReq == UpsReq("", {}, "", "ok", None, "")
IdleUps == [pc |-> "idle", req |-> NoUpsReq, is_update |-> FALSE]
\* The callers and requests drawn for upsert_schedule
Instructors == {"i1", "i2"}
CourseNames == {"c1", "c2"}
UpsShapes == {"no_path", "bad_prefix", "not_json", "missing_fields", "mismatch", "invalid"}
UpsRequests ==
    { UpsReq(i, {"Instructor"}, s, "ok", None, cn) :
        i \in Instructors, s \in ScheduleIds, cn \in CourseNames } \cup
    { UpsReq("i1", {"Instructor"}, s, "ok", Some("i2"), "c1") : s \in ScheduleIds } \cup
    { UpsReq("a1", {"Admin"}, s, "ok", iid, "c1") :
        s \in ScheduleIds, iid \in {None, Some("i1")} } \cup
    { UpsReq("a2", {"Admin", "Instructor"}, s, "ok", None, "c2") : s \in ScheduleIds } \cup
    { UpsReq("s1", {"Student"}, s, "ok", None, "c1") : s \in ScheduleIds } \cup
    { UpsReq("i1", {"Instructor"}, s, shape, None, "c1") :
        s \in ScheduleIds, shape \in UpsShapes }

IdleReg == [pc |-> "idle", req |-> NoReq, s3_key |-> None]
\* The events drawn for register_student_face: those of the ingestion
\* handler, and a preflight request without a body
RegRequests == Requests \cup {Req("OPTIONS", "missing", None, 0, FALSE)}

NoAns ==
    [op |-> "none", who |-> "", req |-> NoReq, statusCode |-> 0, message |-> "",
     fault |-> "none", arg |-> 0, outcome |-> "none", result |-> None]

Init ==
    /\ clock = 1
    /\ nextId = 1
    /\ images = {}
    /\ table = {}
    /\ created = {}
    /\ queue = {}
    /\ notifications = {}
    /\ ing = IdleIng
    /\ wk = [w \in Workers |-> IdleWorker]
    /\ obs = NoObs
    /\ sqs = NoSqs
    /\ students = [u \in Users |-> None]
    /\ schedules = [s \in ScheduleIds |-> None]
    /\ upd = [p \in Updaters |-> IdleUpd]
    /\ ups = [p \in Upserters |-> IdleUps]
    /\ reg = IdleReg
    /\ ans = NoAns

\* ------------------------------------------------- Ingestion Handler
\* handler returns (or, if nothing catches it, raises): the invocation ends
IngestEnds(req, student, tracking_id, out, calls, fault) ==
    /\ obs' = [NoObs EXCEPT !.op = "ingest", !.who = "ing", !.ended = TRUE,
                            !.req = req, !.student = student,
                            !.resp = OuterExcept(out).resp,
                            !.escaped = (OuterExcept(out).kind = "raise"),
                            !.tracking_id = tracking_id,
                            !.fault = fault, !.calls = calls]
    /\ ing' = IdleIng

\* A handler that writes the record before it uploads the image
StepAfterRecordFirst(step) ==
    IF step = "begin" THEN "create"
    ELSE IF step = "create" THEN "upload"
    ELSE IF step = "upload" THEN "enqueue"
    ELSE "done"

\* The order of handler's three effects (lines 123-174): which one follows
\* the step just done
StepAfter(step) ==
    IF step = "begin" THEN "upload"
    ELSE IF step = "upload" THEN "create"
    ELSE IF step = "create" THEN "enqueue"
    ELSE "done"

\* The profile of a student with a registered reference face
RegisteredStudent == [found |-> TRUE, face_registered |-> TRUE, face_s3_key |-> Some("ref")]

\* process_attendance.handler, lines 59-121, and the base64 decode that opens
\* upload_attendance_face_to_s3 (lines 27-31 of attendance_utils.py, the
\* ValueError caught at 132-136): validation, the profile read, the tracking id
I_Begin ==
    /\ ing.pc = "idle"
    /\ UNCHANGED <<clock, stores, wk, others>>
    /\ \E req \in Requests :
         LET pre == ParseAndCheck(req) IN
         IF pre.kind # "continue"
         THEN /\ IngestEnds(req, NoStudent, None, pre, <<>>, "none")
              /\ nextId' = nextId
         ELSE \E read \in StudentReadOutcomes :
                LET chk == CheckStudent(read) IN
                IF chk.kind # "continue"
                THEN /\ IngestEnds(req, read.student, None, chk, <<"get_student">>,
                                   IF read.raised THEN "get_student" ELSE "none")
                     /\ nextId' = nextId
                ELSE /\ nextId <= MaxSubmissions
                     /\ nextId' = nextId + 1
                     /\ IF ~req.b64ok
                        THEN IngestEnds(req, read.student, Some(nextId),
                                        Returns(Resp(400, "Invalid Image", None, "")),
                                        <<"get_student">>, "none")
                        ELSE /\ ing' = [IdleIng EXCEPT !.pc = StepAfter("begin"), !.req = req,
                                                       !.student = [read.student EXCEPT !.face_s3_key = None],
                                                       !.tracking_id = Some(nextId),
                                                       !.calls = <<"get_student">>]
                             /\ obs' = NoObs

\* handler, lines 123-142: s3_client.put_object of the decoded image
I_Upload ==
    /\ ing.pc = "upload"
    /\ UNCHANGED <<clock, nextId, table, created, queue, notifications, wk, others>>
    /\ LET key == AttendanceFaceKey(Val(ing.req.user), Val(ing.tracking_id)) IN
       \E fault \in BOOLEAN :
         IF fault
         THEN /\ IngestEnds(ing.req, ing.student, ing.tracking_id,
                            Returns(Resp(500, "Internal Server Error", None, "")),
                            Append(ing.calls, "put_object"), "put_object")
              /\ images' = images
         ELSE /\ images' = images \cup {key}
              /\ ing' = [ing EXCEPT !.pc = StepAfter("upload"), !.face_s3_key = Some(key),
                                    !.calls = Append(@, "put_object")]
              /\ obs' = NoObs

\* An except block that removes what the handler wrote before the failure
UndoneAfterFailure(store, written) == store \ written

\* handler, the except blocks at 153-158 and 169-174: they log and return
\* 500; what the handler wrote to `store` before the failure stays
KeptAfterFailure(store, written) == store

\* handler, lines 144-158: create_processing_attendance_record and its except
I_Create ==
    /\ ing.pc = "create"
    /\ clock <= MaxClock
    /\ clock' = clock + 1
    /\ UNCHANGED <<nextId, queue, notifications, wk, others>>
    /\ \E fault \in BOOLEAN :
         IF fault
         THEN /\ IngestEnds(ing.req, ing.student, ing.tracking_id,
                            Returns(Resp(500, "Internal Server Error", None, "")),
                            Append(ing.calls, "put_item"), "put_item")
              /\ images' = KeptAfterFailure(images,
                               {AttendanceFaceKey(Val(ing.req.user), Val(ing.tracking_id))})
              /\ UNCHANGED <<table, created>>
         ELSE LET key == AttendanceFaceKey(Val(ing.req.user), Val(ing.tracking_id))
                  item == ProcessingItem(Val(ing.req.user), clock, Val(ing.tracking_id), key)
              IN
              /\ images' = images
              /\ table' = PutItem(table, item)
              /\ created' = created \cup {KeyOf(item)}
              /\ ing' = [ing EXCEPT !.pc = StepAfter("create"), !.attendance_date = Some(clock),
                                    !.calls = Append(@, "put_item")]
              /\ obs' = NoObs

\* handler, lines 169-174: the enqueue failed; the image and the record stay
EnqueueFailed(fault, calls) ==
    /\ IngestEnds(ing.req, ing.student, ing.tracking_id,
                  Returns(Resp(500, "Internal Server Error", None, "")), calls, fault)
    /\ queue' = queue
    /\ images' = KeptAfterFailure(images, {Val(ing.face_s3_key)})
    /\ table' = KeptAfterFailure(table,
                    ItemsAt(table, <<Val(ing.req.user), Val(ing.attendance_date)>>))

\* handler, lines 160-182: send_to_comparison_queue, its except, the 200
I_Enqueue ==
    /\ ing.pc = "enqueue"
    /\ UNCHANGED <<clock, nextId, created, notifications, wk, others>>
    /\ IF ~CallBinds(HandlerSendArgs, SendParams)
       THEN EnqueueFailed("TypeError", ing.calls)
       ELSE \E fault \in BOOLEAN :
              IF fault
              THEN EnqueueFailed("send_message", Append(ing.calls, "send_message"))
              ELSE /\ queue' = SendToComparisonQueue(queue, Val(ing.req.user),
                                   Val(ing.tracking_id), Val(ing.face_s3_key),
                                   Val(ing.attendance_date))
                   /\ UNCHANGED <<images, table>>
                   /\ IngestEnds(ing.req, ing.student, ing.tracking_id,
                                 Returns(Resp(200, "", ing.tracking_id, "processing")),
                                 Append(ing.calls, "send_message"), "none")

\* ------------------------------------------------- Comparison Worker
\* One step of process_single_message is over
WorkerObs(op, w, msg, calls, lookup, student, result, fault) ==
    [NoObs EXCEPT !.op = op, !.who = w, !.msg = msg, !.messageId = wk[w].idx + 1,
                  !.calls = calls, !.lookup = lookup, !.student = student,
                  !.result = result, !.fault = fault, !.failures = wk[w].failures]

\* handler's loop: process_single_message ended for the record at idx + 1;
\* its messageId joins batch_item_failures or not, and the loop goes on
MessageEnds(op, w, msg, out, calls, lookup, student, result, fault) ==
    LET id == wk[w].idx + 1
        failures == BatchItemFailures(wk[w].failures, id, out)
    IN /\ wk' = [wk EXCEPT ![w] = [IdleWorker EXCEPT !.pc = "loop", !.idx = id,
                                                     !.failures = failures]]
       /\ obs' = [WorkerObs(op, w, msg, calls, lookup, student, result, fault)
                    EXCEPT !.ended = TRUE, !.out = out, !.failures = failures]

\* process_single_message, lines 139-144 and 206-211: the exception that
\* compare_faces_with_rekognition raised leaves process_single_message
ComparisonRaised(w, msg, calls, lookup, student, rek) ==
    LET id == wk[w].idx + 1
        failures == BatchItemFailures(wk[w].failures, id, Raised)
    IN /\ wk' = [wk EXCEPT ![w] = [IdleWorker EXCEPT !.pc = "loop", !.idx = id,
                                                     !.failures = failures]]
       /\ obs' = [WorkerObs("begin", w, msg, calls, lookup, student, NoResult, "compare_faces")
                    EXCEPT !.ended = TRUE, !.out = Raised, !.failures = failures,
                           !.rek = rek]

\* A worker that publishes the notification right after the comparison
WorkerStepAfterNotifyFirst(step) ==
    IF step = "compare_faces" THEN "notify" ELSE "update"

\* process_single_message, lines 139-204: after the comparison returned comes
\* the record update (163), after the update the notification (181)
WorkerStepAfter(step) ==
    IF step = "compare_faces" THEN "update" ELSE "notify"

\* compare_student_face.handler is invoked with an SQS event
W_Invoke(w) ==
    /\ wk[w].pc = "idle"
    /\ wk' = [wk EXCEPT ![w] = [IdleWorker EXCEPT !.pc = "loop"]]
    /\ obs' = NoObs
    /\ UNCHANGED <<clock, nextId, stores, ing, others>>

\* What the idempotency lookup met: the read raised, no item, an item that
\* from_dynamodb_item rejects, or a record (then: its status)
LookupKind(tbl, user_id, attendance_date, fault) ==
    LET found == ItemsAt(tbl, <<user_id, attendance_date>>) IN
    IF fault THEN "raised"
    ELSE IF found = {} THEN "absent"
    ELSE IF ~FromDynamoDbItemOk(CHOOSE i \in found : TRUE) THEN "rejected"
    ELSE (CHOOSE i \in found : TRUE).status

\* The attendance dates of the records created so far
CreatedDates == {k[2] : k \in created}

\* process_single_message, lines 41-162: parse, validate, idempotency lookup,
\* profile read, comparison
W_Begin(w, msgs, reads, reks, lfaults) ==
    /\ wk[w].pc = "loop"
    /\ wk[w].idx < MaxBatch
    /\ UNCHANGED <<clock, nextId, stores, ing, others>>
    /\ \E msg \in msgs :
         IF ~msg.json_ok
         THEN MessageEnds("begin", w, msg, Raised, <<>>, "not_called", NoStudent, NoResult, "json")
         ELSE IF ~MessageFieldsPresent(msg)
         THEN MessageEnds("begin", w, msg,
                  Returned(ResultDict(FALSE, "Invalid message format", Some(FALSE), FALSE, None, None)),
                  <<>>, "not_called", NoStudent, NoResult, "none")
         ELSE IF ~Truthy(msg.attendance_date)
         THEN MessageEnds("begin", w, msg,
                  Returned(ResultDict(FALSE, "attendance_date missing from message", Some(FALSE), FALSE, None, None)),
                  <<>>, "not_called", NoStudent, NoResult, "none")
         ELSE \E lfault \in lfaults :
           LET user_id == Val(msg.user_id)
               attendance_date == Val(msg.attendance_date)
               attendance == LookupAttendance(table, user_id, attendance_date, lfault)
               lookup == LookupKind(table, user_id, attendance_date, lfault)
           IN
           IF AlreadyProcessed(attendance)
           THEN MessageEnds("begin", w, msg,
                    Returned(ResultDict(TRUE, "", None, TRUE, Some(Val(attendance).status),
                                        Val(attendance).similarity_score)),
                    <<"get_attendance">>, lookup, NoStudent, NoResult, "none")
           ELSE \E read \in reads :
             IF read.raised
             THEN MessageEnds("begin", w, msg, Raised, <<"get_attendance", "get_student">>,
                              lookup, NoStudent, NoResult, "get_student")
             ELSE IF ~read.student.found
             THEN MessageEnds("begin", w, msg,
                      Returned(ResultDict(FALSE, "Student profile not found", Some(FALSE), FALSE, None, None)),
                      <<"get_attendance", "get_student">>, lookup, read.student, NoResult, "none")
             ELSE IF ~HasRegisteredFace(read.student)
             THEN MessageEnds("begin", w, msg,
                      Returned(ResultDict(FALSE, "No registered face found", Some(FALSE), FALSE, None, None)),
                      <<"get_attendance", "get_student">>, lookup, read.student, NoResult, "none")
             ELSE \E rek \in reks :
               LET cmp == CompareFacesWithRekognition(rek)
                   calls == <<"get_attendance", "get_student", "compare_faces">>
               IN
               IF cmp.raised
               THEN ComparisonRaised(w, msg, calls, lookup, read.student, rek)
               ELSE /\ wk' = [wk EXCEPT ![w] =
                                [@ EXCEPT !.pc = WorkerStepAfter("compare_faces"), !.msg = msg,
                                          !.result = cmp.result, !.calls = calls]]
                    /\ obs' = [WorkerObs("begin", w, msg, calls, lookup, read.student,
                                         cmp.result, "none") EXCEPT !.rek = rek]

\* process_single_message, lines 146-162: the status, score and message the
\* comparison result gives the record
AttendanceStatusOf(result) == IF result.success THEN VERIFIED ELSE FAILED
ErrorMessageOf(result) == IF result.success THEN None ELSE result.error_message

\* process_single_message, lines 163-179: update_attendance_status
W_Update(w) ==
    /\ wk[w].pc = "update"
    /\ clock <= MaxClock
    /\ clock' = clock + 1
    /\ UNCHANGED <<nextId, images, created, queue, notifications, ing, others>>
    /\ LET me == wk[w]
           user_id == Val(me.msg.user_id)
           attendance_date == Val(me.msg.attendance_date)
           calls == Append(me.calls, "update_item")
       IN \E fault \in BOOLEAN :
            IF fault
            THEN /\ table' = table
                 /\ MessageEnds("update", w, me.msg, Raised, calls, "not_called",
                                RegisteredStudent, me.result, "update_item")
            ELSE LET tbl == UpdateItem(table, user_id, attendance_date,
                                       AttendanceStatusOf(me.result),
                                       me.result.similarity_score,
                                       ErrorMessageOf(me.result), clock)
                 IN /\ table' = tbl
                    /\ IF FromDynamoDbItemOk(UpdatedItem(tbl, user_id, attendance_date))
                       THEN /\ wk' = [wk EXCEPT ![w] = [@ EXCEPT !.pc = WorkerStepAfter("update_item"),
                                                                 !.calls = calls]]
                            /\ obs' = WorkerObs("update", w, me.msg, calls, "not_called",
                                                RegisteredStudent, me.result, "none")
                       ELSE MessageEnds("update", w, me.msg, Raised, calls, "not_called",
                                        RegisteredStudent, me.result, "from_dynamodb_item")

\* What publishing does: SNS_TOPIC_ARN is unset, or publish is called and
\* succeeds or raises
SnsOutcomes == {"unconfigured", "published", "failed"}

\* A worker that lets the failure of the publish leave process_single_message
AfterPublishPropagates(sns, d) == IF sns = "failed" THEN Raised ELSE Returned(d)

\* process_single_message, lines 181-204: whatever the publish did (its
\* exception is caught and logged at 195-196), the success dict is returned
AfterPublish(sns, d) == Returned(d)

\* process_single_message, lines 181-204: the notification and the return
W_Notify(w) ==
    /\ wk[w].pc = "notify"
    /\ UNCHANGED <<clock, nextId, images, table, created, queue, ing, others>>
    /\ LET me == wk[w]
           status == AttendanceStatusOf(me.result)
       IN \E sns \in SnsOutcomes :
            /\ notifications' = IF sns = "published"
                                THEN notifications \cup {status}
                                ELSE notifications
            /\ MessageEnds("notify", w, me.msg,
                   AfterPublish(sns, ResultDict(TRUE, "", None, FALSE, Some(status),
                                                me.result.similarity_score)),
                   IF sns = "unconfigured" THEN me.calls ELSE Append(me.calls, "publish"),
                   "not_called", RegisteredStudent, me.result,
                   IF sns = "failed" THEN "publish" ELSE "none")

\* handler, lines 265-273: the batch is through, batchItemFailures returned
W_Return(w) ==
    /\ wk[w].pc = "loop"
    /\ wk[w].idx >= 1
    /\ obs' = [NoObs EXCEPT !.op = "return", !.who = w, !.ended = TRUE,
                            !.failures = wk[w].failures]
    /\ wk' = [wk EXCEPT ![w] = IdleWorker]
    /\ UNCHANGED <<clock, nextId, stores, ing, others>>

Next ==
    \/ I_Begin
    \/ I_Upload
    \/ I_Create
    \/ I_Enqueue
    \/ \E w \in {"w1"} : W_Invoke(w)
    \/ \E w \in {"w1"} : W_Begin(w, JobMessages(CreatedDates \cup {StaleDate}), StudentReadOutcomes, RekAnswers, BOOLEAN)
    \/ \E w \in {"w1"} : W_Update(w)
    \/ \E w \in {"w1"} : W_Notify(w)
    \/ \E w \in {"w1"} : W_Return(w)

\* The pipeline with one worker invocation at a time: every request, every
\* SQS record, every failure of a store or service
Spec == Init /\ [][Next]_vars

NextIngest ==
    \/ I_Begin
    \/ I_Upload
    \/ I_Create
    \/ I_Enqueue

\* The Ingestion Handler alone: every request, every failure of a store
SpecIngest == Init /\ [][NextIngest]_vars

\* The complete jobs for the records created so far
ServiceJobs ==
    { JobBody(Some(1), Some(u), Some(AttendanceFaceKey(u, 1)), Some(d)) :
        u \in Users, d \in CreatedDates }

\* The profile read that finds a student with a registered face
RegisteredRead == {[raised |-> FALSE, student |-> RegisteredStudent]}

NextService ==
    \/ I_Begin
    \/ I_Upload
    \/ I_Create
    \/ I_Enqueue
    \/ \E w \in {"w1"} : W_Invoke(w)
    \/ \E w \in {"w1"} : W_Begin(w, ServiceJobs, RegisteredRead, ServiceAnswers, {FALSE})
    \/ \E w \in {"w1"} : W_Update(w)
    \/ \E w \in {"w1"} : W_Notify(w)
    \/ \E w \in {"w1"} : W_Return(w)

\* The pipeline on well-formed jobs of registered students, with every answer
\* the comparison service can give
SpecService == Init /\ [][NextService]_vars

\* Two answers of the service: a match, and a face that does not match
RaceAnswers == {RekAnswer("none", <<FACE_SIMILARITY_THRESHOLD + 15>>, 0), RekAnswer("none", <<>>, 1)}

NextRace ==
    \/ I_Begin
    \/ I_Upload
    \/ I_Create
    \/ I_Enqueue
    \/ \E w \in Workers : W_Invoke(w)
    \/ \E w \in Workers : W_Begin(w, ServiceJobs, RegisteredRead, RaceAnswers, {FALSE})
    \/ \E w \in Workers : W_Update(w)
    \/ \E w \in Workers : W_Notify(w)
    \/ \E w \in Workers : W_Return(w)

\* Two invocations of the worker running at once (the queue delivers a job
\* at least once, so both can hold the same job), every record read succeeding
SpecRace == Init /\ [][NextRace]_vars

\* ------------------------------------- the queue driving the worker
\* A job for a stored record is in the queue: a send_message of the body
\* send_to_comparison_queue builds
L_Arrive ==
    /\ \E job \in ServiceJobs :
         /\ job \notin sqs.held \cup sqs.deleted
         /\ sqs' = [sqs EXCEPT !.held = SendToComparisonQueue(@, Val(job.user_id),
                                   Val(job.tracking_id), Val(job.face_s3_key),
                                   Val(job.attendance_date))]
    /\ UNCHANGED <<pipeline, students, schedules, upd, ups, reg, ans>>

\* The batches the event source can hand out: 1..MaxBatch different jobs
Batches(held) ==
    { b \in UNION {[1..n -> held] : n \in 1..MaxBatch} :
        \A i \in 1..Len(b) : \A j \in 1..Len(b) : i # j => b[i] # b[j] }

\* compare_student_face.handler is invoked with a batch of the jobs held
L_Invoke(w) ==
    /\ wk[w].pc = "idle"
    /\ \E b \in Batches(sqs.held) : sqs' = [sqs EXCEPT !.batch = b]
    /\ wk' = [wk EXCEPT ![w] = [IdleWorker EXCEPT !.pc = "loop"]]
    /\ obs' = NoObs
    /\ UNCHANGED <<clock, nextId, stores, ing, students, schedules, upd, ups, reg, ans>>

\* The profile reads of a student with a registered face: the read raises
\* or yields the profile
LiveReads == {[raised |-> TRUE, student |-> NoStudent]} \cup RegisteredRead

\* handler's loop takes the next record of the batch
L_Begin(w) ==
    /\ wk[w].idx < Len(sqs.batch)
    /\ W_Begin(w, {sqs.batch[wk[w].idx + 1]}, LiveReads, RekAnswers, BOOLEAN)

\* handler, lines 265-273: the batch is through; the queue deletes the
\* messages not named in batchItemFailures and keeps the others for
\* redelivery
L_Return(w) ==
    /\ wk[w].pc = "loop"
    /\ wk[w].idx >= 1
    /\ wk[w].idx = Len(sqs.batch)
    /\ LET done == {sqs.batch[n] : n \in (1..Len(sqs.batch)) \ wk[w].failures} IN
       sqs' = [held |-> sqs.held \ done, batch |-> <<>>, deleted |-> sqs.deleted \cup done]
    /\ obs' = [NoObs EXCEPT !.op = "return", !.who = w, !.ended = TRUE,
                            !.failures = wk[w].failures]
    /\ wk' = [wk EXCEPT ![w] = IdleWorker]
    /\ UNCHANGED <<clock, nextId, stores, ing, students, schedules, upd, ups, reg, ans>>

NextLive ==
    \/ I_Begin
    \/ I_Upload
    \/ I_Create
    \/ I_Enqueue
    \/ L_Arrive
    \/ \E w \in {"w1"} : L_Invoke(w)
    \/ \E w \in {"w1"} : L_Begin(w)
    \/ \E w \in {"w1"} : W_Update(w)
    \/ \E w \in {"w1"} : W_Notify(w)
    \/ \E w \in {"w1"} : L_Return(w)

\* The worker driven by the queue: jobs of registered students for stored
\* records, redelivered until deleted.  The event source keeps invoking the
\* handler while the queue holds a job, and an invocation runs to its end.
SpecLive ==
    /\ Init
    /\ [][NextLive]_vars
    /\ WF_vars(L_Invoke("w1"))
    /\ WF_vars(L_Begin("w1"))
    /\ WF_vars(W_Update("w1"))
    /\ WF_vars(W_Notify("w1"))
    /\ WF_vars(L_Return("w1"))

\* ------------------------------------------- lookup by tracking id
\* get_attendance_by_tracking_id(table_name, tracking_id) is called
T_Get ==
    /\ \E tracking_id \in LookupArgs : \E index \in {"present", "missing"} :
         LET r == GetAttendanceByTrackingId(table, tracking_id, index) IN
         ans' = [NoAns EXCEPT !.op = "get_attendance_by_tracking_id",
                              !.arg = tracking_id,
                              !.outcome = IF r.raised THEN "raised" ELSE "returned",
                              !.result = r.result]
    /\ UNCHANGED <<pipeline, sqs, students, schedules, upd, ups, reg>>

NextTracking ==
    \/ I_Begin
    \/ I_Upload
    \/ I_Create
    \/ I_Enqueue
    \/ T_Get

\* Submissions, and lookups of their records by tracking id
SpecTracking == Init /\ [][NextTracking]_vars

\* -------------------------------------------------- student profile
\* One API request is answered
Answered(op, who, req, a, fault) ==
    [NoAns EXCEPT !.op = op, !.who = who, !.req = req, !.statusCode = a.statusCode,
                  !.message = a.message, !.fault = fault]

\* create_student_profile.handler (the Cognito PostConfirmation trigger of a
\* sign-up, once per user): put_item of the new profile
P_SignUp ==
    /\ \E u \in Users :
         /\ students[u] = None
         /\ students' = [students EXCEPT ![u] = Some(NewProfile)]
    /\ ans' = [NoAns EXCEPT !.op = "sign_up"]
    /\ UNCHANGED <<pipeline, sqs, schedules, upd, ups, reg>>

\* update_student_profile.handler, lines 57-150: validation, get_item, the
\* test whether student_id is already set
U_Begin(p) ==
    /\ upd[p].pc = "idle"
    /\ UNCHANGED <<pipeline, sqs, students, schedules, ups, reg>>
    /\ \E req \in UpdRequests :
         LET v == ValidateUpdate(req) IN
         IF v.kind # "continue"
         THEN /\ ans' = Answered("update_profile", p, req, v.resp, "none")
              /\ upd' = upd
         ELSE \E fault \in BOOLEAN :
                LET c == CheckStudentId(req, students[Val(req.user)]) IN
                IF fault
                THEN /\ ans' = Answered("update_profile", p, req,
                                        Answer(500, "Internal server error while updating profile"),
                                        "get_item")
                     /\ upd' = upd
                ELSE IF c.kind # "continue"
                THEN /\ ans' = Answered("update_profile", p, req, c.resp, "none")
                     /\ upd' = upd
                ELSE /\ ans' = NoAns
                     /\ upd' = [upd EXCEPT ![p] = [pc |-> "update", req |-> req]]

\* update_student_profile.handler, lines 152-214: update_item and the 200
U_Update(p) ==
    /\ upd[p].pc = "update"
    /\ UNCHANGED <<pipeline, sqs, schedules, ups, reg>>
    /\ upd' = [upd EXCEPT ![p] = IdleUpd]
    /\ LET req == upd[p].req
           u == Val(req.user)
       IN \E fault \in BOOLEAN :
            IF fault
            THEN /\ students' = students
                 /\ ans' = Answered("update_profile", p, req,
                                    Answer(500, "Internal server error while updating profile"),
                                    "update_item")
            ELSE /\ students' = [students EXCEPT ![u] =
                                   Some(UpdateStudentItem(Val(@), req.student_id, req.phone_number))]
                 /\ ans' = Answered("update_profile", p, req, Answer(200, ""), "none")

NextProfile ==
    \/ P_SignUp
    \/ \E p \in Updaters : U_Begin(p)
    \/ \E p \in Updaters : U_Update(p)

\* Sign-up and profile updates, two update requests running at once
SpecProfile == Init /\ [][NextProfile]_vars

\* ---------------------------------------------------- class schedules
\* upsert_schedule.handler, lines 37-148: validation, get_item, the
\* ownership test
S_Begin(p) ==
    /\ ups[p].pc = "idle"
    /\ UNCHANGED <<pipeline, sqs, students, schedules, upd, reg>>
    /\ \E req \in UpsRequests :
         LET v == ValidateUpsert(req) IN
         IF v.kind # "continue"
         THEN /\ ans' = Answered("upsert_schedule", p, req, v.resp, "none")
              /\ ups' = ups
         ELSE \E fault \in BOOLEAN :
                LET item == schedules[req.schedule_id]
                    c == CheckOwnership(req, item)
                IN IF fault
                   THEN /\ ans' = Answered("upsert_schedule", p, req,
                                           Answer(500, "Internal server error while upserting schedule"),
                                           "get_item")
                        /\ ups' = ups
                   ELSE IF c.kind # "continue"
                   THEN /\ ans' = Answered("upsert_schedule", p, req, c.resp, "none")
                        /\ ups' = ups
                   ELSE /\ ans' = NoAns
                        /\ ups' = [ups EXCEPT ![p] =
                                     [pc |-> "put", req |-> req, is_update |-> item # None]]

\* upsert_schedule.handler, lines 150-204: the item, its validation,
\* put_item and the 200 or 201
S_Put(p) ==
    /\ ups[p].pc = "put"
    /\ UNCHANGED <<pipeline, sqs, students, upd, reg>>
    /\ ups' = [ups EXCEPT ![p] = IdleUps]
    /\ LET req == ups[p].req IN
       IF req.shape = "invalid"
       THEN /\ schedules' = schedules
            /\ ans' = Answered("upsert_schedule", p, req, Answer(400, "Validation error"), "none")
       ELSE \E fault \in BOOLEAN :
              IF fault
              THEN /\ schedules' = schedules
                   /\ ans' = Answered("upsert_schedule", p, req,
                                      Answer(500, "Internal server error while upserting schedule"),
                                      "put_item")
              ELSE /\ schedules' = [schedules EXCEPT ![req.schedule_id] = Some(ScheduleData(req))]
                   /\ ans' = Answered("upsert_schedule", p, req,
                                      Answer(IF ups[p].is_update THEN 200 ELSE 201, ""), "none")

NextSchedule ==
    \/ \E p \in Upserters : S_Begin(p)
    \/ \E p \in Upserters : S_Put(p)

\* Schedule upserts, two requests running at once
SpecSchedule == Init /\ [][NextSchedule]_vars

\* ----------------------------------------------------- face registration
\* f"face_registrations/{user_id}/{timestamp}.jpg"
RegistrationFaceKey(user_id, timestamp) == <<"face_registrations", user_id, timestamp>>

\* attendance/register_student_face.handler, lines 63-100. Line 63 calls
\* validate_request(event) and drops what it returns, so neither the method
\* nor the missing body ends the request there.
RegisterParse(req) ==
    IF req.body \in {"missing", "bad_envelope"} THEN Raises
    ELSE IF req.body = "not_json"
    THEN Returns(Answer(400, "Invalid JSON in request body"))
    ELSE IF req.user = None THEN Returns(Answer(401, "User not authenticated"))
    ELSE IF req.body = "not_object" THEN Raises
    ELSE IF req.image_len = 0 THEN Returns(Answer(400, "faceImage is required"))
    ELSE IF req.image_len > 13 * 1024 * 1024
    THEN Returns(Answer(413, "Image size exceeds 13MB limit"))
    ELSE Continues

\* handler, lines 169-174: an exception becomes a 500
RegisterExcept(out) ==
    IF out.kind = "raise"
    THEN Answer(500, "An error occurred while processing your request")
    ELSE out.resp

\* handler, lines 134-145: update_item SET face_registered, face_s3_key on
\* the user's key (an item that does not exist is created by it)
RegisterFaceItem(item, s3_key) ==
    IF item = None THEN Profile(None, None, TRUE, Some(s3_key))
    ELSE [Val(item) EXCEPT !.face_registered = TRUE, !.face_s3_key = Some(s3_key)]

\* handler, lines 61-129: from the event to put_object
R_Begin ==
    /\ reg.pc = "idle"
    /\ UNCHANGED <<nextId, table, created, queue, notifications, ing, wk, obs>>
    /\ UNCHANGED <<sqs, students, schedules, upd, ups>>
    /\ \E req \in RegRequests :
         LET out == RegisterParse(req) IN
         IF out.kind # "continue"
         THEN /\ ans' = Answered("register_student_face", "", req, RegisterExcept(out), "none")
              /\ UNCHANGED <<clock, images, reg>>
         ELSE /\ clock <= MaxClock
              /\ clock' = clock + 1
              /\ LET key == RegistrationFaceKey(Val(req.user), clock) IN
                 IF ~req.b64ok
                 THEN /\ ans' = Answered("register_student_face", "", req,
                                         Answer(400, "Invalid base64 image data"), "none")
                      /\ UNCHANGED <<images, reg>>
                 ELSE \E fault \in {"none", "NoSuchBucket", "put_object"} :
                        IF fault # "none"
                        THEN /\ ans' = Answered("register_student_face", "", req,
                                          IF fault = "NoSuchBucket"
                                          THEN Answer(500, "Storage bucket not found")
                                          ELSE RegisterExcept(Raises), fault)
                             /\ UNCHANGED <<images, reg>>
                        ELSE /\ images' = images \cup {key}
                             /\ reg' = [pc |-> "update", req |-> req, s3_key |-> Some(key)]
                             /\ ans' = NoAns

\* handler, lines 131-161: update_item on the profile (a failure is logged
\* and dropped) and the 200
R_Update ==
    /\ reg.pc = "update"
    /\ clock <= MaxClock
    /\ clock' = clock + 1
    /\ UNCHANGED <<nextId, images, table, created, queue, notifications, ing, wk, obs>>
    /\ UNCHANGED <<sqs, schedules, upd, ups>>
    /\ reg' = IdleReg
    /\ \E fault \in BOOLEAN :
         LET u == Val(reg.req.user) IN
         /\ students' = IF fault THEN students
                        ELSE [students EXCEPT ![u] = Some(RegisterFaceItem(@, Val(reg.s3_key)))]
         /\ ans' = Answered("register_student_face", "", reg.req,
                            Answer(200, "Face registered successfully"),
                            IF fault THEN "update_item" ELSE "none")

NextRegister ==
    \/ P_SignUp
    \/ R_Begin
    \/ R_Update

\* Sign-up and face registration
SpecRegister == Init /\ [][NextRegister]_vars

\* =============================================================== claims

\* The key of the record a complete job names
JobKey(msg) == <<Val(msg.user_id), Val(msg.attendance_date)>>

\* C1: once the record under a submitted (user_id, attendance_date) is VERIFIED
\* or FAILED, no later step (so no later delivery of a job for that key)
\* changes it: the item stays in the table exactly as written.
C1_TerminalRecordNeverChanges ==
    [][\A i \in table :
         (KeyOf(i) \in created /\ i.status \in TerminalStatus) => i \in table']_vars

\* C2: when the idempotency lookup returns a VERIFIED or FAILED record, the
\* message ends there as a success marked skipped: the lookup is the only call
\* made (no profile read, comparison, update or notification), the table and
\* the notifications are unchanged and the messageId is not among the failures.
C2_TerminalLookupSkips ==
    [][(obs'.op = "begin" /\ obs'.lookup \in TerminalStatus) =>
         /\ obs'.ended
         /\ ~obs'.out.raised
         /\ obs'.out.result.success
         /\ obs'.out.result.skipped
         /\ obs'.calls = <<"get_attendance">>
         /\ obs'.messageId \notin obs'.failures
         /\ obs'.failures = wk[obs'.who].failures
         /\ UNCHANGED <<table, notifications>>]_vars

C2_Witness ==
    /\ obs.op = "begin"
    /\ obs.lookup \in TerminalStatus
    /\ obs.out.result.skipped
    /\ obs.messageId \notin obs.failures

\* C3: the table holds exactly one item under every key a submission created,
\* and never two items under any key, whatever was delivered or redelivered.
C3_OneRecordPerKey ==
    /\ \A k \in created : Cardinality(ItemsAt(table, k)) = 1
    /\ \A i \in table : Cardinality(ItemsAt(table, KeyOf(i))) = 1

C3_Witness ==
    /\ obs.op = "begin"
    /\ obs.lookup \in TerminalStatus
    /\ JobKey(obs.msg) \in created
    /\ Cardinality(ItemsAt(table, JobKey(obs.msg))) = 1

\* C4: the status of a submitted record only ever changes from PROCESSING to
\* VERIFIED or FAILED: never back to PROCESSING, never from one terminal
\* status to the other.
C4_StatusOnlyLeavesProcessing ==
    [][\A i \in table : \A j \in table' :
         (KeyOf(i) = KeyOf(j) /\ KeyOf(i) \in created /\ i.status # j.status)
             => (i.status = PROCESSING /\ j.status \in TerminalStatus)]_vars

\* An authenticated POST with a decodable faceImage within the size limit
ValidSubmission(req) ==
    /\ req.method = "POST"
    /\ req.body = "object"
    /\ req.user # None
    /\ req.image_len > 0
    /\ req.image_len <= MAX_FACE_IMAGE_LEN
    /\ req.b64ok

\* C5: a valid submission from a student with a registered face, with no read
\* or write of a store or of the queue failing, is answered 200 with the
\* tracking id just generated and the status "processing".
C5_ValidSubmissionReturns200 ==
    (/\ obs.op = "ingest"
     /\ ValidSubmission(obs.req)
     /\ obs.student.found
     /\ obs.student.face_registered
     /\ obs.fault \notin {"get_student", "put_object", "put_item", "send_message"})
    => /\ obs.resp.statusCode = 200
       /\ obs.resp.tracking_id = obs.tracking_id
       /\ obs.resp.status = "processing"

\* C6: the handler uploads the image before it creates the record and creates
\* the record before it enqueues the job: when it is about to create the
\* record the image is stored, when it is about to enqueue both are there;
\* every queued job has its record, and every record that names a submitted
\* face image has that image in the store.
C6_UploadThenRecordThenEnqueue ==
    /\ ing.pc = "create" =>
         AttendanceFaceKey(Val(ing.req.user), Val(ing.tracking_id)) \in images
    /\ ing.pc = "enqueue" =>
         /\ Val(ing.face_s3_key) \in images
         /\ ItemsAt(table, <<Val(ing.req.user), Val(ing.attendance_date)>>) # {}
    /\ \A m \in queue : ItemsAt(table, JobKey(m)) # {}
    /\ \A i \in table : i.face_s3_key # None => Val(i.face_s3_key) \in images

C6_Witness ==
    /\ ing.pc = "enqueue"
    /\ Val(ing.face_s3_key) \in images
    /\ \E i \in table : /\ i.face_s3_key = ing.face_s3_key
                        /\ i.tracking_id = ing.tracking_id
                        /\ i.status = PROCESSING

\* C7: a request whose faceImage is longer than 13*1024*1024 ends without a
\* call to the student store, the image store, the record store or the queue
\* and with all of them unchanged; if its caller is authenticated the answer
\* is 413.
C7_OversizeRejectedUntouched ==
    [][(obs'.op = "ingest" /\ obs'.req.image_len > MAX_FACE_IMAGE_LEN) =>
         /\ obs'.calls = <<>>
         /\ UNCHANGED <<images, table, created, queue, nextId>>
         /\ obs'.req.user # None => obs'.resp.statusCode = 413]_vars

C7_Witness ==
    /\ obs.op = "ingest"
    /\ obs.req.image_len > MAX_FACE_IMAGE_LEN
    /\ obs.req.user # None
    /\ obs.resp.statusCode = 413
    /\ obs.calls = <<>>

\* C8: when the profile read returns no profile the answer is 404 Not Found,
\* when it returns a profile with face_registered false the answer is 400
\* Face Not Registered; either way the profile read is the only call made and
\* the image store, the record store and the queue are unchanged.
C8_NoProfileOrNoFace ==
    [][(/\ obs'.op = "ingest"
        /\ obs'.calls # <<>>
        /\ obs'.fault # "get_student"
        /\ ~(obs'.student.found /\ obs'.student.face_registered)) =>
         /\ obs'.calls = <<"get_student">>
         /\ UNCHANGED <<images, table, created, queue>>
         /\ ~obs'.student.found =>
              (obs'.resp.statusCode = 404 /\ obs'.resp.error = "Not Found")
         /\ obs'.student.found =>
              (obs'.resp.statusCode = 400 /\ obs'.resp.error = "Face Not Registered")]_vars

C8_WitnessNotFound ==
    /\ obs.op = "ingest"
    /\ obs.calls = <<"get_student">>
    /\ obs.fault = "none"
    /\ ~obs.student.found
    /\ obs.resp.statusCode = 404

C10_MalformedJobDropped ==
    [][(/\ obs'.op = "begin"
        /\ obs'.msg.json_ok
        /\ None \in {obs'.msg.tracking_id, obs'.msg.user_id, obs'.msg.face_s3_key}) =>
         /\ obs'.ended
         /\ ~obs'.out.raised
         /\ ~obs'.out.result.success
         /\ obs'.out.result.retryable = Some(FALSE)
         /\ obs'.messageId \notin obs'.failures
         /\ obs'.failures = wk[obs'.who].failures
         /\ obs'.calls = <<>>
         /\ UNCHANGED <<table, notifications>>]_vars

C10_Witness ==
    /\ obs.op = "begin"
    /\ obs.msg.json_ok
    /\ obs.msg.face_s3_key = None
    /\ obs.msg.tracking_id # None
    /\ obs.msg.user_id # None
    /\ obs.out.result.error = "Invalid message format"
    /\ obs.messageId \notin obs.failures

\* C11: when the profile read of a well-formed job fails, or the comparison
\* service answers it with throttling, process_single_message raises: the
\* messageId joins the batch's failures, and neither the table nor the
\* notifications change (no update_item, no publish is called).
C11_TransientFaultRetried ==
    [][(/\ obs'.op = "begin"
        /\ (obs'.fault = "get_student" \/ obs'.rek.exc = THROTTLED)) =>
         /\ obs'.ended
         /\ obs'.out.raised
         /\ obs'.failures = wk[obs'.who].failures \cup {obs'.messageId}
         /\ \A n \in 1..Len(obs'.calls) : obs'.calls[n] \notin {"update_item", "publish"}
         /\ UNCHANGED <<table, notifications>>]_vars

C11_WitnessThrottled ==
    /\ obs.op = "begin"
    /\ obs.rek.exc = THROTTLED
    /\ obs.lookup = PROCESSING
    /\ obs.messageId \in obs.failures
    /\ \E i \in ItemsAt(table, JobKey(obs.msg)) : i.status = PROCESSING

\* C12: when the profile a job needs is missing, or has face_registered false
\* or no reference face key, the message ends as a failure marked not
\* retryable: its messageId does not join the failures, the profile read is
\* the last call made (no comparison, no update, no notification), and the
\* table is unchanged, so a PROCESSING record stays PROCESSING.
C12_UnusableProfileDropped ==
    [][(/\ obs'.op = "begin"
        /\ Len(obs'.calls) >= 2
        /\ obs'.fault = "none"
        /\ (\/ ~obs'.student.found
            \/ ~obs'.student.face_registered
            \/ obs'.student.face_s3_key = None)) =>
         /\ obs'.calls = <<"get_attendance", "get_student">>
         /\ obs'.ended
         /\ ~obs'.out.raised
         /\ ~obs'.out.result.success
         /\ obs'.out.result.retryable = Some(FALSE)
         /\ obs'.failures = wk[obs'.who].failures
         /\ obs'.messageId \notin obs'.failures
         /\ UNCHANGED <<table, notifications>>]_vars

C12_WitnessNoFaceKey ==
    /\ obs.op = "begin"
    /\ obs.fault = "none"
    /\ obs.student.found
    /\ obs.student.face_registered
    /\ obs.student.face_s3_key = None
    /\ obs.out.result.error = "No registered face found"
    /\ obs.lookup = PROCESSING
    /\ \E i \in ItemsAt(table, JobKey(obs.msg)) : i.status = PROCESSING

\* C13: the handler's loop adds a message's id to batchItemFailures exactly
\* when process_single_message raised or returned a failure not marked
\* non-retryable; a message that succeeded, was skipped or failed
\* non-retryably adds nothing.  Whatever the outcome, the loop goes on to the
\* next record, the failures name processed messages only, and the handler
\* returns the set as accumulated.
C13_BatchItemFailuresExact ==
    [][/\ \A w \in Workers : wk[w].failures \subseteq 1..wk[w].idx
       /\ (obs'.ended /\ obs'.op \in {"begin", "update", "notify"}) =>
            LET w == obs'.who
                id == obs'.messageId
                retry == \/ obs'.out.raised
                         \/ (~obs'.out.result.success /\ obs'.out.result.retryable # Some(FALSE))
            IN /\ id = wk[w].idx + 1
               /\ obs'.failures = IF retry THEN wk[w].failures \cup {id} ELSE wk[w].failures
               /\ wk'[w].failures = obs'.failures
               /\ wk'[w].pc = "loop"
               /\ wk'[w].idx = id
       /\ obs'.op = "return" => obs'.failures = wk[obs'.who].failures]_vars

C13_Witness ==
    /\ obs.ended
    /\ obs.op = "notify"
    /\ obs.messageId = 2
    /\ obs.out.result.success
    /\ obs.failures = {1}

\* C14: process_single_message raises only when the profile read, the
\* comparison service or the record update failed transiently; every other
\* message ends as a success (its record terminal) or as a failure marked
\* not retryable whose messageId is not among the failures.
C14_RaisesOnlyOnTransientFault ==
    (obs.ended /\ obs.op \in {"begin", "update", "notify"}) =>
      IF obs.out.raised
      THEN obs.fault \in {"get_student", "compare_faces", "update_item"}
      ELSE \/ obs.out.result.success
           \/ (obs.out.result.retryable = Some(FALSE) /\ obs.messageId \notin obs.failures)

\* C15: when the publish of the notification fails after the record's update
\* succeeded, process_single_message still returns success with the status
\* written: the messageId does not join the failures, nothing is published,
\* and the record keeps the terminal status the update gave it.
C15_PublishFailureIgnored ==
    [][(obs'.op = "notify" /\ obs'.fault = "publish") =>
         /\ obs'.ended
         /\ ~obs'.out.raised
         /\ obs'.out.result.success
         /\ obs'.out.result.status = Some(AttendanceStatusOf(obs'.result))
         /\ obs'.failures = wk[obs'.who].failures
         /\ obs'.messageId \notin obs'.failures
         /\ UNCHANGED <<table, notifications>>
         /\ \E i \in ItemsAt(table', JobKey(obs'.msg)) :
              i.status = AttendanceStatusOf(obs'.result) /\ i.status \in TerminalStatus]_vars

C15_Witness ==
    /\ obs.op = "notify"
    /\ obs.fault = "publish"
    /\ obs.out.result.success
    /\ obs.calls[Len(obs.calls)] = "publish"
    /\ notifications = {}
    /\ \E i \in ItemsAt(table, JobKey(obs.msg)) : i.status = VERIFIED

\* The highest similarity among the matches of a response
BestScore(matches) ==
    CHOOSE v \in {matches[n] : n \in 1..Len(matches)} :
        \A n \in 1..Len(matches) : matches[n] <= v

\* C16: on a response of the service the adapter returns (never raises): no
\* match and no unmatched face gives failure NO_FACE_DETECTED without score;
\* no match but an unmatched face gives failure SIMILARITY_BELOW_THRESHOLD
\* without score; exactly one match gives success with that match's
\* similarity; two or more matches give failure MULTIPLE_FACES_DETECTED with
\* the highest similarity among them.
C16_ResponseClassified ==
    (obs.op = "begin" /\ obs.rek.exc = "none") =>
      LET m == obs.rek.matches
          r == obs.result
      IN /\ ~obs.out.raised
         /\ (m = <<>> /\ obs.rek.unmatched = 0) =>
              (~r.success /\ r.error_code = Some("NO_FACE_DETECTED") /\ r.similarity_score = None)
         /\ (m = <<>> /\ obs.rek.unmatched > 0) =>
              (~r.success /\ r.error_code = Some("SIMILARITY_BELOW_THRESHOLD")
                 /\ r.similarity_score = None)
         /\ Len(m) = 1 =>
              (r.success /\ r.error_code = None /\ r.similarity_score = Some(m[1]))
         /\ Len(m) >= 2 =>
              (~r.success /\ r.error_code = Some("MULTIPLE_FACES_DETECTED")
                 /\ r.similarity_score = Some(BestScore(m)))

C16_WitnessMultiple ==
    /\ obs.op = "begin"
    /\ obs.rek.exc = "none"
    /\ Len(obs.rek.matches) = 2
    /\ obs.rek.matches[1] > obs.rek.matches[2]
    /\ obs.result.error_code = Some("MULTIPLE_FACES_DETECTED")
    /\ obs.result.similarity_score = Some(obs.rek.matches[1])

\* The error code the adapter gives each error it knows by name
DedicatedCode(exc) ==
    IF exc = "InvalidParameterException" THEN "INVALID_PARAMETER"
    ELSE IF exc = "ImageTooLargeException" THEN "IMAGE_TOO_LARGE"
    ELSE IF exc = "InvalidS3ObjectException" THEN "IMAGE_NOT_FOUND"
    ELSE "INVALID_IMAGE_FORMAT"

DedicatedCodes ==
    {"INVALID_PARAMETER", "IMAGE_TOO_LARGE", "IMAGE_NOT_FOUND", "INVALID_IMAGE_FORMAT"}

\* C17: an invalid-parameter, image-too-large, invalid-S3-object or
\* invalid-image-format error of the service comes back from the adapter as
\* a failure result with its own error code and no score, and the worker goes
\* on to the update, which leaves the record FAILED with the result's
\* message; throttling and every other error leave the adapter as an
\* exception: the message ends raised, with no result and the table unchanged.
C17_ServiceErrorsClassified ==
    [][/\ (obs'.op = "begin" /\ obs'.rek.exc \in ClassifiedErrors) =>
            /\ ~obs'.ended
            /\ wk'[obs'.who].pc = "update"
            /\ ~obs'.result.success
            /\ obs'.result.similarity_score = None
            /\ obs'.result.error_code = Some(DedicatedCode(obs'.rek.exc))
            /\ wk'[obs'.who].result = obs'.result
       /\ (/\ obs'.op = "update"
           /\ obs'.fault # "update_item"
           /\ obs'.result.error_code \in {Some(c) : c \in DedicatedCodes}) =>
            \E i \in ItemsAt(table', JobKey(obs'.msg)) :
                i.status = FAILED /\ i.error_message = obs'.result.error_message
       /\ (obs'.op = "begin" /\ obs'.rek.exc \notin ClassifiedErrors \cup {"none", "not_called"}) =>
            /\ obs'.ended
            /\ obs'.out.raised
            /\ obs'.result = NoResult
            /\ UNCHANGED table]_vars

C17_WitnessPersisted ==
    /\ obs.op = "update"
    /\ obs.fault = "none"
    /\ obs.result.error_code = Some("IMAGE_TOO_LARGE")
    /\ \E i \in ItemsAt(table, JobKey(obs.msg)) :
         i.status = FAILED /\ i.similarity_score = None

\* C18: every item of the table has a similarity_score that is null or lies
\* within 0..100, whatever Similarity the comparison service reported.
C18_ScoreInRange ==
    \A i \in table :
        i.similarity_score = None
          \/ (Val(i.similarity_score) >= 0 /\ Val(i.similarity_score) <= 100)

\* C19: for each record at most one worker invocation reaches the update
\* step: a worker about to update finds its record still PROCESSING, and no
\* other worker is about to update the same record.
C19_OneWorkerReachesUpdate ==
    \A w \in Workers :
        wk[w].pc = "update" =>
          /\ \A i \in ItemsAt(table, JobKey(wk[w].msg)) : i.status = PROCESSING
          /\ \A v \in Workers \ {w} :
               wk[v].pc = "update" => JobKey(wk[v].msg) # JobKey(wk[w].msg)

\* C20: when the record write fails after the upload, or the enqueue fails
\* after the record write, the handler answers 500 and undoes nothing: the
\* image store and the table are exactly as before the failing step, the
\* uploaded image is there and (for a failed enqueue) so is the PROCESSING
\* record as created.
C20_NoRollback ==
    [][(obs'.op = "ingest" /\ obs'.fault \in {"put_item", "send_message", "TypeError"}) =>
         LET key == AttendanceFaceKey(Val(obs'.req.user), Val(obs'.tracking_id)) IN
         /\ obs'.resp.statusCode = 500
         /\ images' = images
         /\ table' = table
         /\ key \in images'
         /\ obs'.fault # "put_item" =>
              ProcessingItem(Val(obs'.req.user), Val(ing.attendance_date),
                             Val(obs'.tracking_id), key) \in table']_vars

C20_Witness ==
    /\ obs.op = "ingest"
    /\ obs.fault = "put_item"
    /\ obs.resp.statusCode = 500
    /\ AttendanceFaceKey(Val(obs.req.user), Val(obs.tracking_id)) \in images
    /\ table = {}

\* The calls of process_single_message in the order of its statements
WorkerCallOrder ==
    <<"get_attendance", "get_student", "compare_faces", "update_item", "publish">>

IsPrefix(s, t) == Len(s) <= Len(t) /\ \A n \in 1..Len(s) : s[n] = t[n]

\* One step of the worker keeps the order of process_single_message: the
\* calls made so far are an initial part of lookup, profile read, comparison,
\* update, publish; a skipped job makes no call after the lookup; a failed
\* profile read, comparison or update ends the message with that call as the
\* last one; the update is reached only from a comparison that returned, the
\* notification only from an update that was persisted, and nothing is
\* published except by a worker whose update left the record terminal.
WorkerStepsInOrder ==
    /\ obs'.op \in {"begin", "update", "notify"} =>
         /\ IsPrefix(obs'.calls, WorkerCallOrder)
         /\ obs'.lookup \in TerminalStatus =>
              (obs'.ended /\ obs'.calls = <<"get_attendance">>)
         /\ obs'.fault \in {"get_student", "compare_faces", "update_item", "from_dynamodb_item"} =>
              /\ obs'.ended
              /\ obs'.out.raised
              /\ obs'.calls[Len(obs'.calls)] =
                   (IF obs'.fault = "from_dynamodb_item" THEN "update_item" ELSE obs'.fault)
              /\ notifications' = notifications
    /\ \A w \in Workers :
         /\ (wk'[w].pc = "update" /\ wk[w].pc # "update") =>
              /\ obs'.op = "begin" /\ obs'.who = w /\ obs'.fault = "none"
              /\ obs'.calls = <<"get_attendance", "get_student", "compare_faces">>
         /\ (wk'[w].pc = "notify" /\ wk[w].pc # "notify") =>
              /\ obs'.op = "update" /\ obs'.who = w /\ obs'.fault = "none"
              /\ wk[w].pc = "update"
              /\ \E i \in ItemsAt(table', JobKey(obs'.msg)) :
                   i.status \in TerminalStatus /\ i.verified_at # None
    /\ notifications' # notifications =>
         /\ obs'.op = "notify"
         /\ wk[obs'.who].pc = "notify"
         /\ obs'.calls = WorkerCallOrder
         /\ notifications' = notifications \cup {AttendanceStatusOf(obs'.result)}
         /\ \E i \in ItemsAt(table, JobKey(obs'.msg)) : i.status \in TerminalStatus

\* C21 (as claimed): the worker's steps run in the order idempotency check,
\* profile read, comparison, update, notification, and a step runs only if
\* every earlier step succeeded: so a job whose idempotency lookup raised
\* goes no further than the lookup.
C21_EveryStepNeedsEarlierSuccess ==
    [][/\ WorkerStepsInOrder
       /\ (obs'.op = "begin" /\ obs'.lookup = "raised") =>
            (obs'.ended /\ obs'.calls = <<"get_attendance">>)]_vars

\* C21 (amended): the worker's steps run in the order idempotency check,
\* profile read, comparison, update, notification; a step after the
\* idempotency check runs only if every earlier step other than that check
\* succeeded (a lookup that raises counts as "no record" and the job goes
\* on); a notification is published only after the terminal update of the
\* record was persisted, never for a job whose update failed or was skipped.
C21_StepsInOrderUnlessLookupFails == [][WorkerStepsInOrder]_vars

C21_Witness ==
    /\ obs.op = "notify"
    /\ obs.calls = WorkerCallOrder
    /\ obs.fault = "none"
    /\ AttendanceStatusOf(obs.result) \in notifications
    /\ \E i \in ItemsAt(table, JobKey(obs.msg)) :
         i.status = AttendanceStatusOf(obs.result) /\ i.verified_at # None

\* C22: after every terminal update by the worker the stored record carries
\* exactly the status, similarity_score and error_message of that
\* invocation's comparison result: a VERIFIED record has no error_message,
\* and a record whose last result had no score has no similarity_score.
C22_RecordMirrorsResult ==
    [][(obs'.op = "update" /\ obs'.fault = "none") =>
         \E i \in ItemsAt(table', JobKey(obs'.msg)) :
            /\ i.status = AttendanceStatusOf(obs'.result)
            /\ i.similarity_score = obs'.result.similarity_score
            /\ i.error_message = ErrorMessageOf(obs'.result)
            /\ i.status = VERIFIED => i.error_message = None]_vars

\* C23: a record's similarity_score is non-null only if a comparison made for
\* that record returned a result with that score (it is set by the update
\* step of a job for the record's key, from the result of the comparison
\* call of that job, or was there before); every PROCESSING record has null
\* similarity_score and null verified_at; every VERIFIED or FAILED record has
\* a verified_at.
C23_ScoreOnlyFromComparison ==
    [][\A j \in table' :
         /\ j.status = PROCESSING => (j.similarity_score = None /\ j.verified_at = None)
         /\ j.status \in TerminalStatus => j.verified_at # None
         /\ j.similarity_score # None =>
              \/ \E i \in ItemsAt(table, KeyOf(j)) : i.similarity_score = j.similarity_score
              \/ /\ obs'.op = "update"
                 /\ JobKey(obs'.msg) = KeyOf(j)
                 /\ obs'.calls = <<"get_attendance", "get_student", "compare_faces", "update_item">>
                 /\ wk[obs'.who].result.similarity_score = j.similarity_score
                 /\ j.status \in TerminalStatus]_vars

C23_Witness ==
    /\ obs.op = "update"
    /\ obs.result.similarity_score # None
    /\ \E i \in ItemsAt(table, JobKey(obs.msg)) :
         /\ i.similarity_score = obs.result.similarity_score
         /\ i.verified_at # None
         /\ i.status \in TerminalStatus

\* C24: every item of the table stands under a key that
\* create_processing_attendance_record wrote (in PROCESSING): no step brings
\* an item into existence under another key, and in particular the worker's
\* update of a job whose attendance_date matches no record creates none.
C24_OnlyIngestionCreates ==
    [][\A j \in table' :
         \/ ItemsAt(table, KeyOf(j)) # {}
         \/ (KeyOf(j) \in created' /\ j.status = PROCESSING /\ obs'.op # "update")]_vars

\* C26: when the idempotency lookup raises (the read fails, or the item read
\* is rejected by from_dynamodb_item), the message neither fails nor is
\* requeued on that account: the worker goes on to the profile read, and what
\* follows is what follows when no record exists: an unusable profile ends
\* the message as a non-retryable failure, a failed profile read or
\* comparison raises, and otherwise the job reaches the update step with the
\* result of the comparison (and from there the notification), whatever
\* record the table holds for the key.
C26_LookupFailureIsNoRecord ==
    [][(obs'.op = "begin" /\ obs'.lookup \in {"raised", "rejected"}) =>
         LET w == obs'.who
             usable == /\ obs'.student.found
                       /\ obs'.student.face_registered
                       /\ obs'.student.face_s3_key # None
         IN /\ Len(obs'.calls) >= 2
            /\ obs'.calls[1] = "get_attendance"
            /\ obs'.calls[2] = "get_student"
            /\ ~obs'.out.result.skipped
            /\ obs'.out.raised <=> obs'.fault \in {"get_student", "compare_faces"}
            /\ obs'.messageId \in obs'.failures <=> obs'.out.raised
            /\ (obs'.fault = "none" /\ ~usable) =>
                 (obs'.ended /\ obs'.out.result.retryable = Some(FALSE))
            /\ (obs'.fault = "none" /\ usable) =>
                 /\ ~obs'.ended
                 /\ obs'.calls = <<"get_attendance", "get_student", "compare_faces">>
                 /\ wk'[w].pc = "update"
                 /\ wk'[w].msg = obs'.msg
                 /\ wk'[w].result = obs'.result]_vars

C26_Witness ==
    /\ obs.op = "begin"
    /\ obs.lookup = "raised"
    /\ wk[obs.who].pc = "update"
    /\ \E i \in ItemsAt(table, JobKey(obs.msg)) : i.status \in TerminalStatus

\* The jobs a submission can have
AllJobs ==
    { JobBody(Some(t), Some(u), Some(AttendanceFaceKey(u, t)), Some(d)) :
        t \in TrackingIds, u \in Users, d \in 1..MaxClock }

\* The last step met a failure of the students table, the comparison service
\* or the attendance table
StoreOrServiceFault == obs.fault \in {"get_student", "compare_faces", "update_item"}

\* The job's record is terminal and the queue has deleted its message
Settled(job) ==
    /\ job \in sqs.deleted
    /\ \E i \in ItemsAt(table, JobKey(job)) : i.status \in TerminalStatus

\* C25: if the failures of the stores and of the comparison service
\* eventually stop, then every job the queue holds for a PROCESSING record of
\* a student with a registered face is eventually settled: its record is
\* VERIFIED or FAILED and its message is deleted (or the readings the clock
\* has in this model are used up).
C25_JobEventuallySettled ==
    (<>[](~StoreOrServiceFault)) =>
      \A job \in AllJobs :
        (/\ job \in sqs.held
         /\ \E i \in ItemsAt(table, JobKey(job)) : i.status = PROCESSING)
          ~> (Settled(job) \/ clock > MaxClock)

C25_Witness ==
    /\ obs.op = "return"
    /\ obs.failures = {}
    /\ clock <= MaxClock
    /\ \E job \in AllJobs : Settled(job) /\ job \notin sqs.held

\* C30: a call of get_attendance_by_tracking_id(tracking_id) whose query
\* does not fail returns the record of the table whose tracking_id is the
\* argument whenever there is one, and None when there is none.
C30_FindsRecordByTrackingId ==
    [][(/\ ans' # ans
        /\ ans'.op = "get_attendance_by_tracking_id"
        /\ ans'.outcome = "returned") =>
         IF \E i \in table' : i.tracking_id = Some(ans'.arg)
         THEN /\ ans'.result # None
              /\ Val(ans'.result) \in table'
              /\ Val(ans'.result).tracking_id = Some(ans'.arg)
         ELSE ans'.result = None]_vars

\* C27: once the profile holds a non-empty student_id, no step changes it,
\* and a well-formed request that supplies student_id for such a profile is
\* answered 403 (unless a call to the table fails) with the profile unchanged.
C27_StudentIdSetOnce ==
    [][\A u \in Users :
         (students[u] # None /\ StudentIdSet(Val(students[u]))) =>
           /\ students'[u] # None
           /\ Val(students'[u]).student_id = Val(students[u]).student_id
           /\ (/\ ans'.op = "update_profile"
               /\ ans'.req.user = Some(u)
               /\ ans'.req.student_id # None
               /\ ValidateUpdate(ans'.req).kind = "continue"
               /\ ans'.fault = "none") =>
                (ans'.statusCode = 403 /\ students' = students)]_vars

\* C28: a well-formed upsert by an instructor-only caller on a schedule whose
\* stored instructor_id is another user's id is answered 403 (unless a call to
\* the table fails) and leaves the schedule unchanged, and a schedule written
\* by an instructor-only caller carries that caller's user_id as instructor_id.
C28_InstructorCannotTakeOver ==
    [][\A s \in ScheduleIds :
         (/\ ans'.op = "upsert_schedule"
          /\ ans'.req.schedule_id = s
          /\ IsInstructorOnly(ans'.req.groups)) =>
           /\ (/\ schedules[s] # None
               /\ Val(schedules[s]).instructor_id \notin {None, Some(ans'.req.user)}
               /\ ans'.req.shape = "ok"
               /\ ans'.fault = "none") =>
                 (ans'.statusCode = 403 /\ schedules' = schedules)
           /\ (schedules'[s] # schedules[s]) =>
                 (schedules'[s] # None /\ Val(schedules'[s]).instructor_id = Some(ans'.req.user))]_vars

\* C29: the face-registration handler stores an image and changes the
\* profile only for a POST request; an OPTIONS request gets the CORS
\* preflight response (200) and any other non-POST request gets 405.
C29_OnlyPostRegisters ==
    [][/\ (images' # images) => reg'.req.method = "POST"
       /\ (students' # students /\ ans'.op = "register_student_face") =>
            ans'.req.method = "POST"
       /\ (ans'.op = "register_student_face" /\ ans'.req.method # "POST") =>
            IF ans'.req.method = "OPTIONS"
            THEN ans'.statusCode = 200 /\ ans'.message = "CORS preflight successful"
            ELSE ans'.statusCode = 405]_vars

====
